---- MODULE Spec2Model ----
(***************************************************************************)
(* A model of cpp/bench.cxx: the benchmark harness of SimSIMD.             *)
(*                                                                         *)
(*   - vectors_pair_gt::randomize, which draws from the process-wide       *)
(*     rand() generator,                                                   *)
(*   - measure(), the routine the benchmarking engine runs on every        *)
(*     thread of a registered case,                                        *)
(*   - register_() and main(), which print the capability report, check    *)
(*     the arguments and fill the engine's registry.                       *)
(*                                                                         *)
(* The kernels (metric, baseline) and the benchmarking engine are outside  *)
(* the file: a kernel is an opaque writer of a two-slot result buffer, the *)
(* engine decides how many iterations the timed loop runs.                 *)
(***************************************************************************)
EXTENDS Integers, Sequences, FiniteSets, TLC

(***************************************************************************)
(* Bounds of the model.                                                    *)
(***************************************************************************)
\* dimensions_ak of the pair the modelled measure() is instantiated with
Dims == 2
\* most iterations the engine's timed loop runs in one activation
MaxIters == 2
\* most times the engine activates measure() on one thread
MaxActivations == 2
\* largest std::thread::hardware_concurrency() considered
MaxThreads == 2
\* rand() returns 0 .. RandModulus - 1 (RAND_MAX = RandModulus - 1)
RandModulus == 8
\* normalised vector elements are kept to 1/Resolution
Resolution == 100

(***************************************************************************)
(* double arithmetic.  A double is a pair <<n, d>>: the rational n/d in    *)
(* lowest terms with d > 0, or <<1, 0>> (+inf), <<-1, 0>> (-inf),          *)
(* <<0, 0>> (NaN).  Comparisons with NaN are false, != with NaN is true.   *)
(***************************************************************************)
RECURSIVE GCD(_, _)
GCD(x, y) == IF y = 0 THEN x ELSE GCD(y, x % y)

AbsInt(x) == IF x < 0 THEN -x ELSE x

SignInt(x) == IF x < 0 THEN -1 ELSE IF x > 0 THEN 1 ELSE 0

Rat(n, d) ==
    IF d = 0 THEN <<SignInt(n), 0>>
    ELSE LET g == GCD(AbsInt(n), AbsInt(d))
             s == SignInt(d)
         IN  <<(s * n) \div g, (s * d) \div g>>

Num(n) == <<n, 1>>

NaN == <<0, 0>>

Zero == <<0, 1>>

IsNaN(x) == x = NaN

IsFinite(x) == x[2] # 0

Add(x, y) ==
    IF IsNaN(x) \/ IsNaN(y) THEN NaN
    ELSE IF ~IsFinite(x) /\ ~IsFinite(y) THEN (IF x = y THEN x ELSE NaN)
    ELSE IF ~IsFinite(x) THEN x
    ELSE IF ~IsFinite(y) THEN y
    ELSE Rat(x[1] * y[2] + y[1] * x[2], x[2] * y[2])

Neg(x) == <<-x[1], x[2]>>

Sub(x, y) == Add(x, Neg(y))

\* std::abs on a double
Abs(x) == <<AbsInt(x[1]), x[2]>>

\* x > y
Gt(x, y) ==
    IF IsNaN(x) \/ IsNaN(y) THEN FALSE
    ELSE IF ~IsFinite(x) \/ ~IsFinite(y)
         THEN (IF IsFinite(x) THEN y[1] < 0
               ELSE IF IsFinite(y) THEN x[1] > 0
               ELSE x[1] > y[1])
    ELSE x[1] * y[2] > y[1] * x[2]

\* x != y
Ne(x, y) == IsNaN(x) \/ IsNaN(y) \/ x # y

\* x / y: a finite value over zero is an infinity, 0/0 is NaN
Div(x, y) ==
    IF IsNaN(x) \/ IsNaN(y) THEN NaN
    ELSE IF ~IsFinite(x) /\ ~IsFinite(y) THEN NaN
    ELSE IF ~IsFinite(x) THEN <<x[1] * (IF y[1] < 0 THEN -1 ELSE 1), 0>>
    ELSE IF ~IsFinite(y) THEN Zero
    ELSE Rat(x[1] * y[2], x[2] * y[1])

(***************************************************************************)
(* Scalar types and vectors_pair_gt.                                       *)
(***************************************************************************)
\* sizeof(scalar_at)
SizeOf(scalar) ==
    CASE scalar = "f16" -> 2
      [] scalar = "f32" -> 4
      [] scalar = "f64" -> 8
      [] scalar = "i8"  -> 1
      [] scalar = "b8"  -> 1

\* std::is_integral_v<scalar_at>
IsIntegral(scalar) == scalar \in {"i8", "b8"}

dimensions(dims) == dims

size_bytes(scalar, dims) == dims * SizeOf(scalar)

\* scalar_at a[dimensions_ak]{}, b[dimensions_ak]{}
ZeroPair(dims) == [a |-> [i \in 1..dims |-> Zero], b |-> [i \in 1..dims |-> Zero]]

\* rand(): the generator's next state; the call returns that state
RandNext(s) == (5 * s + 3) % RandModulus

\* static_cast<scalar_at>(rand()) for the integral types
CastIntegral(scalar, v) ==
    LET m == v % 256
    IN  IF scalar = "i8" /\ m >= 128 THEN m - 256 ELSE m

\* sum of squares of the draws that went to one vector
SumSquares(ds) ==
    LET RECURSIVE S(_)
        S(i) == IF i = 0 THEN 0 ELSE ds[i] * ds[i] + S(i - 1)
    IN  S(Len(ds))

\* (draw / RAND_MAX) / sqrt(sum of (draw / RAND_MAX)^2), to 1/Resolution;
\* 0/0 (every draw of the vector was 0) is NaN
Normalized(draw, sumsq) ==
    IF sumsq = 0 THEN NaN
    ELSE LET k == CHOOSE k \in 0..Resolution :
                     /\ k * k * sumsq <= draw * draw * Resolution * Resolution
                     /\ \/ k = Resolution
                        \/ (k + 1) * (k + 1) * sumsq > draw * draw * Resolution * Resolution
         IN  Rat(k, Resolution)

\* the draws are made in the order a[0], b[0], a[1], b[1], ...
DrawsOfA(ds) == [i \in 1..(Len(ds) \div 2) |-> ds[2 * i - 1]]

DrawsOfB(ds) == [i \in 1..(Len(ds) \div 2) |-> ds[2 * i]]

\* the pair randomize() leaves, from the values its rand() calls returned
randomize(scalar, ds) ==
    LET da == DrawsOfA(ds)
        db == DrawsOfB(ds)
    IN  IF IsIntegral(scalar)
        THEN [a |-> [i \in 1..Len(da) |-> Num(CastIntegral(scalar, da[i]))],
              b |-> [i \in 1..Len(db) |-> Num(CastIntegral(scalar, db[i]))]]
        ELSE [a |-> [i \in 1..Len(da) |-> Normalized(da[i], SumSquares(da))],
              b |-> [i \in 1..Len(db) |-> Normalized(db[i], SumSquares(db))]]

(***************************************************************************)
(* The registration catalog of main(): one entry per register_ call, in    *)
(* source order, with the capability flag that compiles it in.             *)
(***************************************************************************)
E(tier, name, scalar, kind, metric, baseline) ==
    [tier |-> tier, name |-> name, scalar |-> scalar, kind |-> kind,
     metric |-> metric, baseline |-> baseline]

Catalog == <<
    E("NEON", "neon_f16_dot", "f16", "distance_k", "simsimd_dot_f16_neon", "simsimd_dot_f16_accurate"),
    E("NEON", "neon_f16_cos", "f16", "distance_k", "simsimd_cos_f16_neon", "simsimd_cos_f16_accurate"),
    E("NEON", "neon_f16_l2sq", "f16", "distance_k", "simsimd_l2sq_f16_neon", "simsimd_l2sq_f16_accurate"),
    E("NEON", "neon_f16_kl", "f16", "distance_k", "simsimd_kl_f16_neon", "simsimd_kl_f16_accurate"),
    E("NEON", "neon_f16_js", "f16", "distance_k", "simsimd_js_f16_neon", "simsimd_js_f16_accurate"),
    E("NEON", "neon_f32_dot", "f32", "distance_k", "simsimd_dot_f32_neon", "simsimd_dot_f32_accurate"),
    E("NEON", "neon_f32_cos", "f32", "distance_k", "simsimd_cos_f32_neon", "simsimd_cos_f32_accurate"),
    E("NEON", "neon_f32_l2sq", "f32", "distance_k", "simsimd_l2sq_f32_neon", "simsimd_l2sq_f32_accurate"),
    E("NEON", "neon_f32_kl", "f32", "distance_k", "simsimd_kl_f32_neon", "simsimd_kl_f32_accurate"),
    E("NEON", "neon_f32_js", "f32", "distance_k", "simsimd_js_f32_neon", "simsimd_js_f32_accurate"),
    E("NEON", "neon_i8_cos", "i8", "distance_k", "simsimd_cos_i8_neon", "simsimd_cos_i8_accurate"),
    E("NEON", "neon_i8_l2sq", "i8", "distance_k", "simsimd_l2sq_i8_neon", "simsimd_l2sq_i8_accurate"),
    E("NEON", "neon_b8_hamming", "b8", "distance_k", "simsimd_hamming_b8_neon", "simsimd_hamming_b8_serial"),
    E("NEON", "neon_b8_jaccard", "b8", "distance_k", "simsimd_jaccard_b8_neon", "simsimd_jaccard_b8_serial"),
    E("NEON", "neon_f32c_dot", "f32", "complex_dot_k", "simsimd_dot_f32c_neon", "simsimd_dot_f32c_accurate"),
    E("SVE", "sve_f16_dot", "f16", "distance_k", "simsimd_dot_f16_sve", "simsimd_dot_f16_accurate"),
    E("SVE", "sve_f16_cos", "f16", "distance_k", "simsimd_cos_f16_sve", "simsimd_cos_f16_accurate"),
    E("SVE", "sve_f16_l2sq", "f16", "distance_k", "simsimd_l2sq_f16_sve", "simsimd_l2sq_f16_accurate"),
    E("SVE", "sve_f32_dot", "f32", "distance_k", "simsimd_dot_f32_sve", "simsimd_dot_f32_accurate"),
    E("SVE", "sve_f32_cos", "f32", "distance_k", "simsimd_cos_f32_sve", "simsimd_cos_f32_accurate"),
    E("SVE", "sve_f32_l2sq", "f32", "distance_k", "simsimd_l2sq_f32_sve", "simsimd_l2sq_f32_accurate"),
    E("SVE", "sve_f64_dot", "f64", "distance_k", "simsimd_dot_f64_sve", "simsimd_dot_f64_serial"),
    E("SVE", "sve_f64_cos", "f64", "distance_k", "simsimd_cos_f64_sve", "simsimd_cos_f64_serial"),
    E("SVE", "sve_f64_l2sq", "f64", "distance_k", "simsimd_l2sq_f64_sve", "simsimd_l2sq_f64_serial"),
    E("SVE", "sve_b8_hamming", "b8", "distance_k", "simsimd_hamming_b8_sve", "simsimd_hamming_b8_serial"),
    E("SVE", "sve_b8_jaccard", "b8", "distance_k", "simsimd_jaccard_b8_sve", "simsimd_jaccard_b8_serial"),
    E("HASWELL", "avx2_f16_dot", "f16", "distance_k", "simsimd_dot_f16_haswell", "simsimd_dot_f16_accurate"),
    E("HASWELL", "avx2_f16_cos", "f16", "distance_k", "simsimd_cos_f16_haswell", "simsimd_cos_f16_accurate"),
    E("HASWELL", "avx2_f16_l2sq", "f16", "distance_k", "simsimd_l2sq_f16_haswell", "simsimd_l2sq_f16_accurate"),
    E("HASWELL", "avx2_f16_kl", "f16", "distance_k", "simsimd_kl_f16_haswell", "simsimd_kl_f16_accurate"),
    E("HASWELL", "avx2_f16_js", "f16", "distance_k", "simsimd_js_f16_haswell", "simsimd_js_f16_accurate"),
    E("HASWELL", "avx2_i8_cos", "i8", "distance_k", "simsimd_cos_i8_haswell", "simsimd_cos_i8_accurate"),
    E("HASWELL", "avx2_i8_l2sq", "i8", "distance_k", "simsimd_l2sq_i8_haswell", "simsimd_l2sq_i8_accurate"),
    E("HASWELL", "avx2_b8_hamming", "b8", "distance_k", "simsimd_hamming_b8_haswell", "simsimd_hamming_b8_serial"),
    E("HASWELL", "avx2_b8_jaccard", "b8", "distance_k", "simsimd_jaccard_b8_haswell", "simsimd_jaccard_b8_serial"),
    E("SAPPHIRE", "avx512_f16_dot", "f16", "distance_k", "simsimd_dot_f16_sapphire", "simsimd_dot_f16_accurate"),
    E("SAPPHIRE", "avx512_f16_cos", "f16", "distance_k", "simsimd_cos_f16_sapphire", "simsimd_cos_f16_accurate"),
    E("SAPPHIRE", "avx512_f16_l2sq", "f16", "distance_k", "simsimd_l2sq_f16_sapphire", "simsimd_l2sq_f16_accurate"),
    E("SAPPHIRE", "avx512_f16_kl", "f16", "distance_k", "simsimd_kl_f16_sapphire", "simsimd_kl_f16_accurate"),
    E("SAPPHIRE", "avx512_f16_js", "f16", "distance_k", "simsimd_js_f16_sapphire", "simsimd_js_f16_accurate"),
    E("ICE", "avx512_i8_cos", "i8", "distance_k", "simsimd_cos_i8_ice", "simsimd_cos_i8_accurate"),
    E("ICE", "avx512_i8_l2sq", "i8", "distance_k", "simsimd_l2sq_i8_ice", "simsimd_l2sq_i8_accurate"),
    E("ICE", "avx512_f64_dot", "f64", "distance_k", "simsimd_dot_f64_skylake", "simsimd_dot_f64_serial"),
    E("ICE", "avx512_f64_cos", "f64", "distance_k", "simsimd_cos_f64_skylake", "simsimd_cos_f64_serial"),
    E("ICE", "avx512_f64_l2sq", "f64", "distance_k", "simsimd_l2sq_f64_skylake", "simsimd_l2sq_f64_serial"),
    E("ICE", "avx512_b8_hamming", "b8", "distance_k", "simsimd_hamming_b8_avx512", "simsimd_hamming_b8_serial"),
    E("ICE", "avx512_b8_jaccard", "b8", "distance_k", "simsimd_jaccard_b8_avx512", "simsimd_jaccard_b8_serial"),
    E("SKYLAKE", "avx512_f32_dot", "f32", "distance_k", "simsimd_dot_f32_skylake", "simsimd_dot_f32_accurate"),
    E("SKYLAKE", "avx512_f32_cos", "f32", "distance_k", "simsimd_cos_f32_skylake", "simsimd_cos_f32_accurate"),
    E("SKYLAKE", "avx512_f32_l2sq", "f32", "distance_k", "simsimd_l2sq_f32_skylake", "simsimd_l2sq_f32_accurate"),
    E("SKYLAKE", "avx512_f32_kl", "f32", "distance_k", "simsimd_kl_f32_skylake", "simsimd_kl_f32_accurate"),
    E("SKYLAKE", "avx512_f32_js", "f32", "distance_k", "simsimd_js_f32_skylake", "simsimd_js_f32_accurate"),
    E("SERIAL", "serial_f16_dot", "f16", "distance_k", "simsimd_dot_f16_serial", "simsimd_dot_f16_accurate"),
    E("SERIAL", "serial_f16_cos", "f16", "distance_k", "simsimd_cos_f16_serial", "simsimd_cos_f16_accurate"),
    E("SERIAL", "serial_f16_l2sq", "f16", "distance_k", "simsimd_l2sq_f16_serial", "simsimd_l2sq_f16_accurate"),
    E("SERIAL", "serial_f16_kl", "f16", "distance_k", "simsimd_kl_f16_serial", "simsimd_kl_f16_accurate"),
    E("SERIAL", "serial_f16_js", "f16", "distance_k", "simsimd_js_f16_serial", "simsimd_js_f16_accurate"),
    E("SERIAL", "serial_f32_dot", "f32", "distance_k", "simsimd_dot_f32_serial", "simsimd_dot_f32_accurate"),
    E("SERIAL", "serial_f32_cos", "f32", "distance_k", "simsimd_cos_f32_serial", "simsimd_cos_f32_accurate"),
    E("SERIAL", "serial_f32_l2sq", "f32", "distance_k", "simsimd_l2sq_f32_serial", "simsimd_l2sq_f32_accurate"),
    E("SERIAL", "serial_f32_kl", "f32", "distance_k", "simsimd_kl_f32_serial", "simsimd_kl_f32_accurate"),
    E("SERIAL", "serial_f32_js", "f32", "distance_k", "simsimd_js_f32_serial", "simsimd_js_f32_accurate"),
    E("SERIAL", "serial_f64_dot", "f64", "distance_k", "simsimd_dot_f64_serial", "simsimd_dot_f64_serial"),
    E("SERIAL", "serial_f64_cos", "f64", "distance_k", "simsimd_cos_f64_serial", "simsimd_cos_f64_serial"),
    E("SERIAL", "serial_f64_l2sq", "f64", "distance_k", "simsimd_l2sq_f64_serial", "simsimd_l2sq_f64_serial"),
    E("SERIAL", "serial_i8_cos", "i8", "distance_k", "simsimd_cos_i8_serial", "simsimd_cos_i8_accurate"),
    E("SERIAL", "serial_i8_l2sq", "i8", "distance_k", "simsimd_l2sq_i8_serial", "simsimd_l2sq_i8_accurate"),
    E("SERIAL", "serial_f32c_dot", "f32", "complex_dot_k", "simsimd_dot_f32c_serial", "simsimd_dot_f32c_accurate"),
    E("SERIAL", "serial_f16c_dot", "f16", "complex_dot_k", "simsimd_dot_f16c_serial", "simsimd_dot_f16c_accurate"),
    E("SERIAL", "serial_b8_hamming", "b8", "distance_k", "simsimd_hamming_b8_serial", "simsimd_hamming_b8_serial"),
    E("SERIAL", "serial_b8_jaccard", "b8", "distance_k", "simsimd_jaccard_b8_serial", "simsimd_jaccard_b8_serial")
    >>

\* the SIMSIMD_TARGET_* flags that guard registrations
Targets == {"NEON", "SVE", "HASWELL", "SAPPHIRE", "ICE", "SKYLAKE"}

\* every flag the capability report prints
ReportedFlags == Targets \cup {"F16"}

\* the register_ calls that survive preprocessing, in order
Registrations(fl) ==
    SelectSeq(Catalog, LAMBDA e : e.tier = "SERIAL" \/ fl[e.tier])

\* std::to_string on a std::size_t
RECURSIVE to_string(_)
to_string(n) ==
    IF n < 10 THEN SubSeq("0123456789", n + 1, n + 1)
    ELSE to_string(n \div 10) \o SubSeq("0123456789", (n % 10) + 1, (n % 10) + 1)

\* the dimension register_ instantiates the pair with
CatalogDimensions == 1536

\* std::size_t seconds = 10
MinTimeSeconds == 10

\* bm::RegisterBenchmark(name, measure<...>, metric, baseline)->MinTime()->Threads()
Benchmark(name, e, dims, hwc) ==
    [name |-> name, scalar |-> e.scalar, kind |-> e.kind, dims |-> dims,
     metric |-> e.metric, baseline |-> e.baseline,
     minTime |-> MinTimeSeconds, threads |-> hwc]

\* register_ with the early return removed: the byte-sized case is added too
register_both(reg, e, hwc) ==
    LET dims_d == dimensions(CatalogDimensions)
        dims_b == CatalogDimensions \div SizeOf(e.scalar)
    IN  reg \o << Benchmark(e.name \o "_" \o to_string(dims_d) \o "d", e, dims_d, hwc),
                  Benchmark(e.name \o "_" \o to_string(size_bytes(e.scalar, dims_b)) \o "b",
                            e, dims_b, hwc) >>

\* register_: the registry after the call (the code after `return` is dead)
register_(reg, e, hwc) ==
    LET dims_d == dimensions(CatalogDimensions)
        name_dims == e.name \o "_" \o to_string(dims_d) \o "d"
    IN  Append(reg, Benchmark(name_dims, e, dims_d, hwc))

\* the lines main() prints before it initialises the engine
CapabilityReport(fl) ==
    LET flagText(b) == IF b THEN "true" ELSE "false"
    IN  << "Benchmarking Similarity Measures",
           "",
           "- Arm NEON support enabled: " \o flagText(fl["NEON"]),
           "- Arm SVE support enabled: " \o flagText(fl["SVE"]),
           "- x86 HASWELL support enabled: " \o flagText(fl["HASWELL"]),
           "- x86 SKYLAKE support enabled: " \o flagText(fl["SKYLAKE"]),
           "- x86 ICE support enabled: " \o flagText(fl["ICE"]),
           "- x86 SAPPHIRE support enabled: " \o flagText(fl["SAPPHIRE"]),
           "- Compiler supports F16: " \o flagText(fl["F16"]),
           "" >>

(***************************************************************************)
(* State.                                                                  *)
(***************************************************************************)
VARIABLES
    \* main() and the process
    mainPc,         \* "start", "init", "register", "run", "exited"
    flags,          \* the compile-time capability flags, by name
    unrecognized,   \* what bm::ReportUnrecognizedArguments returns
    hw,             \* std::thread::hardware_concurrency()
    runs,           \* times the engine calls measure() on each thread
    stdout,         \* the lines printed so far
    registry,       \* the engine's registered benchmarks, in order
    regIdx,         \* register_ calls made so far
    exitCode,       \* -1 while the process runs
    ran,            \* bm::RunSpecifiedBenchmarks has returned
    argsChecked,    \* bm::ReportUnrecognizedArguments has been called
    \* the engine's run of one registered case
    case,           \* the catalog entry whose measure() the threads run
    seed,           \* the state of the process-wide rand() generator
    \* measure() on each thread
    pc,             \* "idle", "randomize", "rand", "baseline", "loop", "done"
    randLocal,      \* the generator state a rand() call in progress has read
    draws,          \* the values rand() returned to this randomize()
    pair,           \* pair_at pair
    memo,           \* the buffer the baseline function left for this pair
    c_baseline,
    c,
    iterations,
    counters,       \* state.counters
    \* bookkeeping for the properties
    activation,     \* activations of measure() begun on the thread
    trace,          \* the calls of the current activation, in order
    engineIters,    \* passes of the engine's loop in the current activation
    entrySeed,      \* the generator state the activation's first rand() read
    contenderOutputs \* the folded outputs the contender returned so far

mainVars == <<mainPc, flags, unrecognized, hw, runs, stdout, registry, regIdx,
              exitCode, ran, argsChecked>>

threadVars == <<pc, randLocal, draws, pair, memo, c_baseline, c, iterations,
                counters, activation, trace, engineIters, entrySeed,
                contenderOutputs>>

vars == <<mainVars, case, seed, threadVars>>

Threads == 1..MaxThreads

(***************************************************************************)
(* The kernels.  A kernel leaves the two-slot buffer it was handed in one  *)
(* of these states (a slot it does not write keeps its 0).                 *)
(***************************************************************************)
KernelOutputs ==
    { <<x, y>> : x \in {Num(-1), Zero, Rat(1, 10000), Num(1), NaN},
                 y \in {Zero, Rat(1, 20000)} }

\* The Hamming kernels count differing bits into slot 0: of the buffers
\* above they leave one with a whole, non-negative count.
OutputsOf(fn) ==
    IF fn \in {"simsimd_hamming_b8_serial"}
    THEN { o \in KernelOutputs : o[1] \in {Zero, Num(1)} /\ o[2] = Zero }
    ELSE KernelOutputs

\* The buffers a call of function fn on thread t's pair may leave.  The
\* baseline functions are the trusted, stateless references: called again
\* on the same pair, one leaves what it left before.  A contender that is
\* another function may leave anything, call by call.
Writes(fn, t) ==
    IF fn = case.baseline /\ memo[t] # <<>> THEN {memo[t]} ELSE OutputsOf(fn)

\* return results[0] + results[1]
Fold(results) == Add(results[1], results[2])

(***************************************************************************)
(* measure(): the counters.                                                *)
(***************************************************************************)
\* the tolerance literal 0.0001
Tolerance == Rat(1, 10000)

\* a clamp that keeps a difference equal to the tolerance (>= for >)
DeltaInclusive(cv, cb) ==
    IF ~Gt(Tolerance, Abs(Sub(cv, cb))) /\ ~IsNaN(Abs(Sub(cv, cb)))
    THEN Abs(Sub(cv, cb)) ELSE Zero

\* std::abs(c - c_baseline) > 0.0001 ? std::abs(c - c_baseline) : 0
Delta(cv, cb) ==
    IF Gt(Abs(Sub(cv, cb)), Tolerance) THEN Abs(Sub(cv, cb)) ELSE Zero

\* an error without the c_baseline != 0 test
ErrorUnguarded(delta, cb) ==
    IF Ne(delta, Zero) THEN Div(delta, cb) ELSE Zero

\* an error whose quotient is truncated to a whole number
ErrorTruncated(delta, cb) ==
    IF Ne(delta, Zero) /\ Ne(cb, Zero)
    THEN LET q == Div(delta, cb)
         IN  IF IsFinite(q) THEN Num(SignInt(q[1]) * (AbsInt(q[1]) \div q[2])) ELSE q
    ELSE Zero

\* delta != 0 && c_baseline != 0 ? delta / c_baseline : 0
Error(delta, cb) ==
    IF Ne(delta, Zero) /\ Ne(cb, Zero) THEN Div(delta, cb) ELSE Zero

\* bm::Counter(value, flags)
Counter(value, isRate) == [value |-> value, rate |-> isRate]

\* a byte count that forgets the second vector
BytesOneVector(n, scalar, dims) == n * size_bytes(scalar, dims)

\* iterations * pair.size_bytes() * 2
Bytes(n, scalar, dims) == n * size_bytes(scalar, dims) * 2

\* state.counters after lines 81-87
Counters(n, cv, cb, scalar, dims) ==
    LET delta == Delta(cv, cb)
        error == Error(delta, cb)
    IN  [bytes          |-> Counter(Num(Bytes(n, scalar, dims)), TRUE),
         pairs          |-> Counter(Num(n), TRUE),
         abs_delta      |-> Counter(delta, FALSE),
         relative_error |-> Counter(error, FALSE)]

Event(op, timed) == [op |-> op, timed |-> timed]

(***************************************************************************)
(* measure(): the steps of one activation on thread t.                     *)
(***************************************************************************)
\* The engine calls measure(): `pair_at pair;` and the call of randomize().
Begin(t) ==
    /\ mainPc = "run"
    /\ t \in 1..hw
    /\ pc[t] \in {"idle", "done"}
    /\ activation[t] < runs
    /\ activation' = [activation EXCEPT ![t] = @ + 1]
    /\ pair' = [pair EXCEPT ![t] = ZeroPair(Dims)]
    /\ draws' = [draws EXCEPT ![t] = <<>>]
    /\ memo' = [memo EXCEPT ![t] = <<>>]
    /\ c_baseline' = [c_baseline EXCEPT ![t] = Zero]
    /\ c' = [c EXCEPT ![t] = Zero]
    /\ iterations' = [iterations EXCEPT ![t] = 0]
    /\ counters' = [counters EXCEPT ![t] = <<>>]
    /\ trace' = [trace EXCEPT ![t] = <<Event("randomize", FALSE)>>]
    /\ engineIters' = [engineIters EXCEPT ![t] = 0]
    /\ contenderOutputs' = [contenderOutputs EXCEPT ![t] = {}]
    /\ pc' = [pc EXCEPT ![t] = "randomize"]
    /\ UNCHANGED <<mainVars, case, seed, randLocal, entrySeed>>

\* rand() reads the generator's state ...
RandLoad(t) ==
    /\ pc[t] = "randomize"
    /\ randLocal' = [randLocal EXCEPT ![t] = seed]
    /\ entrySeed' = [entrySeed EXCEPT ![t] = IF draws[t] = <<>> THEN seed ELSE @]
    /\ pc' = [pc EXCEPT ![t] = "rand"]
    /\ UNCHANGED <<mainVars, case, seed, draws, pair, memo, c_baseline, c,
                   iterations, counters, activation, trace, engineIters,
                   contenderOutputs>>

\* ... and writes the next state back, returning it.  After the last draw
\* randomize() normalises and returns (nothing else of it is shared).
RandStore(t) ==
    /\ pc[t] = "rand"
    /\ LET s  == RandNext(randLocal[t])
           ds == Append(draws[t], s)
       IN  /\ seed' = s
           /\ draws' = [draws EXCEPT ![t] = ds]
           /\ IF Len(ds) = 2 * Dims
              THEN /\ pair' = [pair EXCEPT ![t] = randomize(case.scalar, ds)]
                   /\ pc' = [pc EXCEPT ![t] = "baseline"]
              ELSE /\ pair' = pair
                   /\ pc' = [pc EXCEPT ![t] = "randomize"]
    /\ UNCHANGED <<mainVars, case, randLocal, memo, c_baseline, c, iterations,
                   counters, activation, trace, engineIters, entrySeed,
                   contenderOutputs>>

\* double c_baseline = call_baseline(pair); double c = 0; iterations = 0
call_baseline(t) ==
    /\ pc[t] = "baseline"
    /\ \E results \in Writes(case.baseline, t) :
          /\ memo' = [memo EXCEPT ![t] = results]
          /\ c_baseline' = [c_baseline EXCEPT ![t] = Fold(results)]
    /\ c' = [c EXCEPT ![t] = Zero]
    /\ iterations' = [iterations EXCEPT ![t] = 0]
    /\ trace' = [trace EXCEPT ![t] = Append(@, Event("baseline", FALSE))]
    /\ pc' = [pc EXCEPT ![t] = "loop"]
    /\ UNCHANGED <<mainVars, case, seed, randLocal, draws, pair, counters,
                   activation, engineIters, entrySeed, contenderOutputs>>

\* a loop body that runs the contender and drops what it returned
IterateDiscard(t) ==
    /\ pc[t] = "loop"
    /\ engineIters[t] < MaxIters
    /\ engineIters' = [engineIters EXCEPT ![t] = @ + 1]
    /\ \E results \in Writes(case.metric, t) :
          contenderOutputs' = [contenderOutputs EXCEPT ![t] = @ \cup {Fold(results)}]
    /\ iterations' = [iterations EXCEPT ![t] = @ + 1]
    /\ trace' = [trace EXCEPT ![t] = Append(@, Event("contender", TRUE))]
    /\ UNCHANGED <<mainVars, case, seed, pc, randLocal, draws, pair, memo,
                   c_baseline, c, counters, activation, entrySeed>>

\* a loop body that also re-runs the baseline
IterateWithBaseline(t) ==
    /\ pc[t] = "loop"
    /\ engineIters[t] < MaxIters
    /\ engineIters' = [engineIters EXCEPT ![t] = @ + 1]
    /\ \E results \in Writes(case.metric, t) :
          /\ c' = [c EXCEPT ![t] = Fold(results)]
          /\ contenderOutputs' = [contenderOutputs EXCEPT ![t] = @ \cup {Fold(results)}]
    /\ iterations' = [iterations EXCEPT ![t] = @ + 1]
    /\ trace' = [trace EXCEPT ![t] =
                    Append(Append(@, Event("baseline", TRUE)), Event("contender", TRUE))]
    /\ UNCHANGED <<mainVars, case, seed, pc, randLocal, draws, pair, memo,
                   c_baseline, counters, activation, entrySeed>>

\* for (auto _ : state) bm::DoNotOptimize((c = call_contender(pair))), iterations++;
\* one pass of the loop, while the engine keeps it running
Iterate(t) ==
    /\ pc[t] = "loop"
    /\ engineIters[t] < MaxIters
    /\ engineIters' = [engineIters EXCEPT ![t] = @ + 1]
    /\ \E results \in Writes(case.metric, t) :
          /\ c' = [c EXCEPT ![t] = Fold(results)]
          /\ contenderOutputs' = [contenderOutputs EXCEPT ![t] = @ \cup {Fold(results)}]
    /\ iterations' = [iterations EXCEPT ![t] = @ + 1]
    /\ trace' = [trace EXCEPT ![t] = Append(@, Event("contender", TRUE))]
    /\ UNCHANGED <<mainVars, case, seed, pc, randLocal, draws, pair, memo,
                   c_baseline, counters, activation, entrySeed>>

\* The engine ends the loop; lines 81-87 set the four counters.
Report(t) ==
    /\ pc[t] = "loop"
    /\ counters' = [counters EXCEPT ![t] =
                       Counters(iterations[t], c[t], c_baseline[t], case.scalar, Dims)]
    /\ pc' = [pc EXCEPT ![t] = "done"]
    /\ UNCHANGED <<mainVars, case, seed, randLocal, draws, pair, memo,
                   c_baseline, c, iterations, activation, trace, engineIters,
                   entrySeed, contenderOutputs>>

measure(t) ==
    \/ Begin(t)
    \/ RandLoad(t)
    \/ RandStore(t)
    \/ call_baseline(t)
    \/ Iterate(t)
    \/ Report(t)

(***************************************************************************)
(* main().                                                                 *)
(***************************************************************************)
\* lines 115-125: the capability report
PrintCapabilities ==
    /\ mainPc = "start"
    /\ stdout' = stdout \o CapabilityReport(flags)
    /\ mainPc' = "init"
    /\ UNCHANGED <<flags, unrecognized, hw, runs, registry, regIdx, exitCode, ran,
                   argsChecked, case, seed, threadVars>>

\* an argument check that never rejects
CheckArgumentsLenient ==
    /\ mainPc = "init"
    /\ argsChecked' = TRUE
    /\ mainPc' = "register"
    /\ UNCHANGED <<exitCode, flags, unrecognized, hw, runs, stdout, registry, regIdx,
                   ran, case, seed, threadVars>>

\* lines 128-130: bm::Initialize; if (bm::ReportUnrecognizedArguments) return 1
CheckArguments ==
    /\ mainPc = "init"
    /\ argsChecked' = TRUE
    /\ IF unrecognized
       THEN /\ exitCode' = 1
            /\ mainPc' = "exited"
       ELSE /\ exitCode' = exitCode
            /\ mainPc' = "register"
    /\ UNCHANGED <<flags, unrecognized, hw, runs, stdout, registry, regIdx, ran,
                   case, seed, threadVars>>

\* lines 132-240: the next register_ call that was compiled in
Register ==
    /\ mainPc = "register"
    /\ regIdx < Len(Registrations(flags))
    /\ registry' = register_(registry, Registrations(flags)[regIdx + 1], hw)
    /\ regIdx' = regIdx + 1
    /\ UNCHANGED <<mainPc, flags, unrecognized, hw, runs, stdout, exitCode, ran,
                   argsChecked, case, seed, threadVars>>

\* line 242: bm::RunSpecifiedBenchmarks() is entered
StartRun ==
    /\ mainPc = "register"
    /\ regIdx = Len(Registrations(flags))
    /\ mainPc' = "run"
    /\ UNCHANGED <<flags, unrecognized, hw, runs, stdout, registry, regIdx, exitCode,
                   ran, argsChecked, case, seed, threadVars>>

\* lines 242-244: the engine has run its cases; bm::Shutdown(); return 0
FinishRun ==
    /\ mainPc = "run"
    /\ \A t \in 1..hw : pc[t] \in {"idle", "done"}
    /\ ran' = TRUE
    /\ exitCode' = 0
    /\ mainPc' = "exited"
    /\ UNCHANGED <<flags, unrecognized, hw, runs, stdout, registry, regIdx,
                   argsChecked, case, seed, threadVars>>

\* the registry main() has built when it reaches line 242
RECURSIVE RegisterAll(_, _, _)
RegisterAll(regs, n, hwc) ==
    IF n = 0 THEN <<>> ELSE register_(RegisterAll(regs, n - 1, hwc), regs[n], hwc)

(***************************************************************************)
(* Specifications.                                                         *)
(***************************************************************************)
\* a build with no accelerated target
PortableFlags == [f \in ReportedFlags |-> FALSE]

\* the cases a run is filtered to (--benchmark_filter): one per scalar type,
\* two of them comparing a function with itself
MeasuredNames ==
    {"serial_f16_dot", "serial_f32c_dot", "serial_f64_dot", "serial_i8_cos",
     "serial_b8_hamming"}

MeasuredCases == { Catalog[i] : i \in { j \in 1..Len(Catalog) : Catalog[j].name \in MeasuredNames } }

IdleThreads ==
    /\ pc = [t \in Threads |-> "idle"]
    /\ randLocal = [t \in Threads |-> 0]
    /\ draws = [t \in Threads |-> <<>>]
    /\ pair = [t \in Threads |-> ZeroPair(Dims)]
    /\ memo = [t \in Threads |-> <<>>]
    /\ c_baseline = [t \in Threads |-> Zero]
    /\ c = [t \in Threads |-> Zero]
    /\ iterations = [t \in Threads |-> 0]
    /\ counters = [t \in Threads |-> <<>>]
    /\ activation = [t \in Threads |-> 0]
    /\ trace = [t \in Threads |-> <<>>]
    /\ engineIters = [t \in Threads |-> 0]
    /\ entrySeed = [t \in Threads |-> 0]
    /\ contenderOutputs = [t \in Threads |-> {}]

\* main() of a portable build is inside bm::RunSpecifiedBenchmarks, about
\* to run the selected case on hwc threads; rand() was never seeded
InitRun(hwcs, repeats, cases) ==
    /\ flags = PortableFlags
    /\ unrecognized = FALSE
    /\ hw \in hwcs
    /\ runs \in repeats
    /\ mainPc = "run"
    /\ stdout = CapabilityReport(flags)
    /\ registry = RegisterAll(Registrations(flags), Len(Registrations(flags)), hw)
    /\ regIdx = Len(Registrations(flags))
    /\ exitCode = -1
    /\ ran = FALSE
    /\ argsChecked = TRUE
    /\ case \in cases
    /\ seed = 1
    /\ IdleThreads

\* one thread
Init == InitRun({1}, {MaxActivations}, MeasuredCases)

Next == (\E t \in Threads : measure(t)) \/ FinishRun

Spec == Init /\ [][Next]_vars

\* the threads of one case, as many as the hardware has
InitThreads == InitRun(1..MaxThreads, {1}, { e \in MeasuredCases : e.scalar = "b8" })

SpecThreads == InitThreads /\ [][Next]_vars

\* main() from its first line, the engine's run taken as one step
InitMain ==
    /\ flags \in [ReportedFlags -> BOOLEAN]
    /\ unrecognized \in BOOLEAN
    /\ hw \in 1..MaxThreads
    /\ runs = 1
    /\ mainPc = "start"
    /\ stdout = <<>>
    /\ registry = <<>>
    /\ regIdx = 0
    /\ exitCode = -1
    /\ ran = FALSE
    /\ argsChecked = FALSE
    /\ case = Catalog[Len(Catalog)]
    /\ seed = 1
    /\ IdleThreads

NextMain ==
    \/ PrintCapabilities
    \/ CheckArguments
    \/ Register
    \/ StartRun
    \/ FinishRun

SpecMain == InitMain /\ [][NextMain]_vars

(***************************************************************************)
(* Properties.                                                             *)
(***************************************************************************)
Active == 1..hw

\* |c - c_baseline| of thread t, as measure() has it after the loop
Difference(t) == Abs(Sub(c[t], c_baseline[t]))

\* the calls an activation with n passes of the timed loop should have made
ExpectedTrace(n) ==
    <<Event("randomize", FALSE), Event("baseline", FALSE)>>
        \o [i \in 1..n |-> Event("contender", TRUE)]

\* C1: in every activation the pair is generated once, then the baseline is
\* called once, outside the timed loop and before any contender call, and the
\* contender is called exactly once per pass of the engine's timed loop.
C1_CallOrder ==
    \A t \in Threads :
        /\ pc[t] = "idle" => trace[t] = <<>>
        /\ pc[t] \in {"randomize", "rand", "baseline"}
              => trace[t] = <<Event("randomize", FALSE)>>
        /\ pc[t] \in {"loop", "done"} => trace[t] = ExpectedTrace(engineIters[t])

\* a second activation that ran the timed loop at least twice has finished
C1_Witness ==
    \E t \in Active : pc[t] = "done" /\ activation[t] >= 2 /\ engineIters[t] >= 2

\* C2: for a reference r # 0 and a last contender value whose absolute_delta
\* is nonzero, relative_error is absolute_delta / |r|, hence never negative.
C2_RelativeErrorOverMagnitude ==
    \A t \in Active :
        (/\ pc[t] = "done"
         /\ engineIters[t] >= 1
         /\ IsFinite(c_baseline[t]) /\ c_baseline[t] # Zero
         /\ counters[t].abs_delta.value # Zero)
        => /\ counters[t].relative_error.value
                 = Div(counters[t].abs_delta.value, Abs(c_baseline[t]))
           /\ counters[t].relative_error.value[1] >= 0

C4_ZeroReference ==
    \A t \in Active :
        (pc[t] = "done" /\ c_baseline[t] = Zero)
        => counters[t].relative_error.value = Zero

\* the reference is 0 and the contender is off by more than the tolerance
C4_Witness ==
    \E t \in Active :
        /\ pc[t] = "done"
        /\ engineIters[t] >= 1
        /\ c_baseline[t] = Zero
        /\ counters[t].abs_delta.value # Zero
        /\ counters[t].relative_error.value = Zero

\* the contender calls in a trace
ContenderCalls(tr) == Len(SelectSeq(tr, LAMBDA e : e.op = "contender"))

\* C5: after the timed loop of an activation with n passes, 'pairs' is n, the
\* number of contender calls, 'bytes' is n * dimensions * sizeof(scalar) * 2,
\* and both are rate counters.
C5_ThroughputCounters ==
    \A t \in Active :
        pc[t] = "done"
        => /\ counters[t].pairs = [value |-> <<engineIters[t], 1>>, rate |-> TRUE]
           /\ ContenderCalls(trace[t]) = engineIters[t]
           /\ counters[t].bytes =
                 [value |-> <<engineIters[t] * Dims * SizeOf(case.scalar) * 2, 1>>,
                  rate |-> TRUE]

\* an activation on 2-byte scalars that ran the loop has reported
C5_Witness ==
    \E t \in Active :
        /\ pc[t] = "done"
        /\ case.scalar = "f16"
        /\ engineIters[t] >= 1
        /\ counters[t].bytes.value[1] = engineIters[t] * Dims * 4

\* the values n successive rand() calls return from generator state s
RECURSIVE SoloDraws(_, _)
SoloDraws(s, n) ==
    IF n = 0 THEN <<>> ELSE <<RandNext(s)>> \o SoloDraws(RandNext(s), n - 1)

\* C6: no state is shared between the threads: the pair a thread generates
\* is the one its own rand() calls produce from the generator state it
\* started from, whatever the other threads do meanwhile.
C6_PairIsPrivate ==
    \A t \in Active :
        pc[t] \in {"baseline", "loop", "done"}
        => pair[t] = randomize(case.scalar, SoloDraws(entrySeed[t], 2 * Dims))

\* the contender returned two different folded outputs in this activation
Diverged(t) == Cardinality(contenderOutputs[t]) >= 2

\* C7 as stated: a contender that returned different outputs in two timed
\* iterations of an activation makes relative_error nonzero.
C7_DivergenceSurfaces ==
    \A t \in Active :
        (pc[t] = "done" /\ Diverged(t))
        => counters[t].relative_error.value # Zero

\* C7, amended: such a contender makes relative_error nonzero when its last
\* output is more than 0.0001 away from a nonzero reference.
C7_LastOutputSurfaces ==
    \A t \in Active :
        (/\ pc[t] = "done"
         /\ Diverged(t)
         /\ IsFinite(Difference(t))
         /\ Difference(t)[1] * 10000 > Difference(t)[2]
         /\ c_baseline[t] # Zero)
        => counters[t].relative_error.value # Zero

\* a contender diverged and its last output, 0, was 0.00015 away from the
\* reference: relative_error was reported as 1
C7_Witness ==
    \E t \in Active :
        /\ pc[t] = "done"
        /\ Diverged(t)
        /\ c_baseline[t] = <<3, 20000>>
        /\ c[t] = Zero
        /\ counters[t].relative_error.value = <<1, 1>>

\* the names a registry holds
Names(reg) == { reg[i].name : i \in 1..Len(reg) }

\* C8: unrecognized arguments end the process with code 1 before anything is
\* registered or run; otherwise every applicable case is registered, the
\* benchmarks run and the code is 0; the capability report is printed before
\* the argument check either way.
C8_ExitCodes ==
    /\ argsChecked => stdout = CapabilityReport(flags)
    /\ (argsChecked /\ unrecognized)
          => /\ mainPc = "exited"
             /\ exitCode = 1
             /\ registry = <<>>
             /\ regIdx = 0
             /\ ~ran
    /\ (mainPc = "exited" /\ ~unrecognized)
          => /\ exitCode = 0
             /\ ran
             /\ Len(registry) = Len(Registrations(flags))
             /\ \A i \in 1..Len(registry) :
                   registry[i].name = Registrations(flags)[i].name \o "_1536d"
    /\ exitCode = 1 => unrecognized

\* the process has exited with code 1, the report printed
C8_Witness ==
    /\ mainPc = "exited"
    /\ exitCode = 1
    /\ Len(stdout) = 10

EndsWith(s, suffix) ==
    /\ Len(s) >= Len(suffix)
    /\ SubSeq(s, Len(s) - Len(suffix) + 1, Len(s)) = suffix

\* C9: whatever the capability flags, the registered names are pairwise
\* distinct, every register_ call adds exactly one case whose name ends in
\* "_1536d", and the serial cases are registered in every build.
C9_Registry ==
    /\ Cardinality(Names(registry)) = Len(registry)
    /\ Len(registry) = regIdx
    /\ \A i \in 1..Len(registry) : EndsWith(registry[i].name, "_1536d")
    /\ (mainPc = "run" \/ (mainPc = "exited" /\ exitCode = 0))
          => \A i \in 1..Len(Catalog) :
                Catalog[i].tier = "SERIAL"
                => Catalog[i].name \o "_1536d" \in Names(registry)

\* a build with every target enabled has registered the whole catalog
C9_Witness ==
    /\ mainPc = "run"
    /\ \A f \in Targets : flags[f]
    /\ Len(registry) = Len(Catalog)

\* C10: when contender and baseline are the same deterministic function and
\* the loop ran at least once, abs_delta and relative_error are 0 and 'pairs'
\* is positive.
C10_SelfComparison ==
    \A t \in Active :
        (pc[t] = "done" /\ case.metric = case.baseline /\ engineIters[t] >= 1)
        => /\ counters[t].abs_delta.value = Zero
           /\ counters[t].relative_error.value = Zero
           /\ counters[t].pairs.value[1] > 0

\* a function compared with itself returned a nonzero value and was reported
C10_Witness ==
    \E t \in Active :
        /\ pc[t] = "done"
        /\ case.metric = case.baseline
        /\ engineIters[t] >= 1
        /\ IsFinite(c_baseline[t]) /\ c_baseline[t] # Zero
        /\ counters[t].abs_delta.value = Zero

====
